---- MODULE Spec2Model ----
(***************************************************************************)
(* Model of src/src/App.js: the quote collection, the import parser, the   *)
(* preview/commit workflow and the optional remote store (supabase).       *)
(*                                                                         *)
(* A string is a sequence of characters; a character is a one-token        *)
(* string.  " " is the whitespace character that String.trim removes.      *)
(* User-facing texts (alerts, import errors) are named by short tags.      *)
(* The admin panel is taken to be open: adminMode only decides whether the *)
(* import and manual-add controls are rendered.  The search box and the    *)
(* poster download act on the card grid only; they are followed in         *)
(* ViewSpec, over collections the other operations may have left.          *)
(***************************************************************************)
EXTENDS Integers, Sequences, FiniteSets, TLC

VARIABLES
    supabase,     \* TRUE iff the remote client is configured (App.js:14-17)
    db,           \* rows of the remote table 'quotes', in ascending id order
    quotes,       \* useState([]) App.js:33
    previewList,  \* useState([]) App.js:36
    importError,  \* useState("") App.js:37
    loading,      \* useState(false) App.js:41
    alert,        \* the alert() raised by the last step, "" when it raised none
    loadPc,       \* position of load() (App.js:45-65)
    loadData,     \* the rows the load's select returned, once it has
    reads,        \* FileReader reads in flight: the files being read
    commits,      \* confirmImport calls suspended at an await
    adds,         \* addManual inserts whose promise has not settled
    lastAdded,    \* history: the records of the last completed successful add
    lastImport,   \* history, kept by ParseSpec only: the last file read and the
                  \* preview list and collection it found
    inserted,     \* history: how often the batch now previewed has been taken
                  \* by the remote table since it was read from its file
    query,        \* useState("") App.js:34
    selected,     \* useState(null) App.js:39: <<>> is null, <<q>> the quote q
    downloads     \* handleDownload calls suspended at an await

\* The search box and the poster: what the card grid works on.
view == << query, selected, downloads >>

vars == << supabase, db, quotes, previewList, importError, loading,
           alert, loadPc, loadData, reads, commits, adds, lastAdded, lastImport,
           inserted, query, selected, downloads >>

----------------------------------------------------------------------------
(* Bounds of the model *)

MaxDb == 2        \* rows the remote table may hold
MaxQuotes == 12   \* records the quote collection may hold
MaxReads == 2     \* file reads in flight
MaxAdds == 1      \* manual inserts in flight
MaxCommits == 2   \* confirmImport calls in flight (the code allows one)
MaxInFlight == 2  \* asynchronous operations in flight, of all kinds together
MaxItems == 3     \* elements of an imported JSON array
MaxRows == 2      \* rows of an imported CSV
MaxCols == 2      \* fields of a CSV row

(* Program constants *)
LoadLimit == 200      \* .limit(200) of load()
RefreshLimit == 500   \* .limit(500) of confirmImport's refresh

----------------------------------------------------------------------------
(* Strings and JavaScript values *)

WS == {" "}

\* The literal "مجهول", the label of an unknown author.
UnknownAuthor == <<"unknown">>

RECURSIVE TrimStart(_)
TrimStart(s) ==
    IF s # <<>> /\ Head(s) \in WS THEN TrimStart(Tail(s)) ELSE s

RECURSIVE TrimEnd(_)
TrimEnd(s) ==
    IF s # <<>> /\ s[Len(s)] \in WS THEN TrimEnd(SubSeq(s, 1, Len(s) - 1)) ELSE s

\* String.prototype.trim
Trim(s) == TrimEnd(TrimStart(s))

\* A JSON field value: a string, a number (s is its decimal form), null, or
\* absent (undefined).
JStr(s) == [k |-> "str", s |-> s]
JNum(d) == [k |-> "num", s |-> d]
JNull == [k |-> "null", s |-> <<>>]
JAbsent == [k |-> "absent", s |-> <<>>]

\* JavaScript truthiness, as used by the || operator.
Falsy(v) ==
    \/ v.k \in {"null", "absent"}
    \/ v.k = "str" /\ v.s = <<>>
    \/ v.k = "num" /\ v.s = <<"0">>

\* (v || d).toString() for a string default d
OrToString(v, d) == IF Falsy(v) THEN d ELSE v.s

\* s || d for strings
OrStr(s, d) == IF s = <<>> THEN d ELSE s

Quote(t, a) == [text |-> t, author |-> a]

RECURSIVE SeqMap(_, _)
SeqMap(Op(_), s) ==
    IF s = <<>> THEN <<>> ELSE <<Op(Head(s))>> \o SeqMap(Op, Tail(s))

RECURSIVE SeqFilter(_, _)
SeqFilter(Test(_), s) ==
    IF s = <<>> THEN <<>>
    ELSE (IF Test(Head(s)) THEN <<Head(s)>> ELSE <<>>) \o SeqFilter(Test, Tail(s))

RECURSIVE Reverse(_)
Reverse(s) == IF s = <<>> THEN <<>> ELSE Reverse(Tail(s)) \o <<Head(s)>>

Take(s, n) == SubSeq(s, 1, IF Len(s) < n THEN Len(s) ELSE n)

Range(s) == {s[i] : i \in 1..Len(s)}

Count(r, s) == Cardinality({i \in 1..Len(s) : s[i] = r})

RemoveAt(s, i) == SubSeq(s, 1, i - 1) \o SubSeq(s, i + 1, Len(s))

----------------------------------------------------------------------------
(* Built-in sample set *)

SAMPLE_QUOTES ==
    << Quote(<<"s1">>, <<"proverb">>),
       Quote(<<"s2">>, UnknownAuthor),
       Quote(<<"s3">>, UnknownAuthor),
       Quote(<<"s4">>, UnknownAuthor),
       Quote(<<"s5">>, <<"proverb">>),
       Quote(<<"s6">>, UnknownAuthor),
       Quote(<<"s7">>, UnknownAuthor),
       Quote(<<"s8">>, UnknownAuthor),
       Quote(<<"s9">>, <<"verse">>),
       Quote(<<"s10">>, UnknownAuthor) >>

----------------------------------------------------------------------------
(* Import parser: the body of reader.onload, App.js:121-150 *)

\* A file is [name, content].  name is a sequence of characters whose last
\* one stands for the extension.  content is what the decoded text is to the
\* two parsers: JSON.parse throws (k = "invalid"), or returns a non-array
\* value (k = "scalar") or an array (k = "array", items); Papa.parse returns
\* rows of string fields (rows).
File(n, k, items, rows) ==
    [name |-> n, content |-> [k |-> k, items |-> items, rows |-> rows]]

\* An element of a JSON array: an object with text and author fields (either
\* may be absent), null, or a primitive, which has neither field.
JObj(t, a) == [k |-> "obj", text |-> t, author |-> a]
JNullElem == [k |-> "null", text |-> JAbsent, author |-> JAbsent]
JPrimElem == [k |-> "prim", text |-> JAbsent, author |-> JAbsent]

LowerChar(c) ==
    CASE c = ".JSON" -> ".json"
      [] c = ".CSV" -> ".csv"
      [] c = ".TXT" -> ".txt"
      [] c = "Q" -> "q"
      [] OTHER -> c

\* String.prototype.toLowerCase
ToLowerCase(n) == [i \in 1..Len(n) |-> LowerChar(n[i])]

\* name.endsWith(ext), ext one extension
EndsWith(n, ext) == n # <<>> /\ n[Len(n)] = ext

\* Mutant of JsonItem: the author is not defaulted.
JsonItemNoDefault(i) ==
    Quote(Trim(OrToString(i.text, <<>>)), Trim(OrToString(i.author, <<>>)))

\* data.map((i) => ({text: (i.text || "").toString().trim(),
\*                   author: (i.author || "مجهول").toString().trim()}))
JsonItem(i) ==
    Quote(Trim(OrToString(i.text, <<>>)), Trim(OrToString(i.author, UnknownAuthor)))

\* Mutant of HasText: nothing is filtered out.
HasTextAlways(p) == TRUE

HasText(p) == p.text # <<>>

\* The try block of the JSON branch: ok is FALSE when JSON.parse throws, the
\* value is not an array, or reading .text of a null element throws.
ParseJson(content) ==
    IF content.k # "array" \/ \E j \in 1..Len(content.items) : content.items[j].k = "null"
    THEN [ok |-> FALSE, list |-> <<>>]
    ELSE [ok |-> TRUE, list |-> SeqFilter(HasText, SeqMap(JsonItem, content.items))]

\* row[n] || d, row[n] being undefined past the end of the row
FieldOr(row, n, d) == IF n <= Len(row) /\ row[n] # <<>> THEN row[n] ELSE d

\* Mutant of CsvRow: the author is not defaulted.
CsvRowNoDefault(row) ==
    Quote(Trim(FieldOr(row, 1, <<>>)), Trim(FieldOr(row, 2, <<>>)))

\* (row) => ({text: (row[0] || "").toString().trim(),
\*            author: (row[1] || "مجهول").toString().trim()})
CsvRow(row) ==
    Quote(Trim(FieldOr(row, 1, <<>>)), Trim(FieldOr(row, 2, UnknownAuthor)))

ParseCsv(content) == SeqFilter(HasText, SeqMap(CsvRow, content.rows))

\* Mutant of ImportResult: the catch of the JSON branch sets no error.
ImportResultSilentJson(file) ==
    LET name == ToLowerCase(file.name) IN
    IF EndsWith(name, ".json")
    THEN [list |-> ParseJson(file.content).list, error |-> ""]
    ELSE IF EndsWith(name, ".csv")
    THEN [list |-> ParseCsv(file.content), error |-> ""]
    ELSE [list |-> <<>>, error |-> "unsupported_type"]

\* What reader.onload sets: the preview list, and the import error if any
\* ("" means setImportError is not called).
ImportResult(file) ==
    LET name == ToLowerCase(file.name) IN
    IF EndsWith(name, ".json")
    THEN LET r == ParseJson(file.content) IN
         IF r.ok THEN [list |-> r.list, error |-> ""]
         ELSE [list |-> <<>>, error |-> "invalid_json"]
    ELSE IF EndsWith(name, ".csv")
    THEN [list |-> ParseCsv(file.content), error |-> ""]
    ELSE [list |-> <<>>, error |-> "unsupported_type"]

----------------------------------------------------------------------------
(* The application: state after the first render *)

\* (d) => ({text: d.text, author: d.author || "مجهول"}), App.js:55 and 179
FromRow(d) == Quote(d.text, OrStr(d.author, UnknownAuthor))

\* (p) => ({text: p.text, author: p.author || "مجهول"}), App.js:162-165
PayloadRow(p) == Quote(p.text, OrStr(p.author, UnknownAuthor))

\* select("*").order("id", {ascending: false}).limit(n) on the table
SelectDesc(table, n) == Take(Reverse(table), n)

\* No file has been read yet.
NoImport == [done |-> FALSE, file |-> File(<<>>, "none", <<>>, <<>>),
             before |-> <<>>, quotes |-> <<>>]

\* Rows the remote table may hold before the application starts.
InitialTables == { <<>>, <<Quote(<<"d">>, <<>>)>> }

Init ==
    /\ supabase \in BOOLEAN
    /\ db \in InitialTables
    /\ quotes = <<>>
    /\ previewList = <<>>
    /\ importError = ""
    /\ loading = FALSE
    /\ alert = ""
    /\ loadPc = "start"
    /\ loadData = <<>>
    /\ reads = <<>>
    /\ commits = <<>>
    /\ adds = <<>>
    /\ lastAdded = <<>>
    /\ lastImport = NoImport
    /\ inserted = 0
    /\ query = <<>>
    /\ selected = <<>>
    /\ downloads = <<>>

\* Passive effects run before any user event is handled.
Mounted == loadPc # "start"

\* Asynchronous operations in flight: the load, file reads, commits, inserts.
InFlight ==
    Len(reads) + Len(commits) + Len(adds)
        + (IF loadPc \in {"select", "selected"} THEN 1 ELSE 0)

\* Room, within the model's bound, for one more asynchronous operation.
CanStart == InFlight < MaxInFlight

----------------------------------------------------------------------------
(* load(), App.js:44-67 *)

\* The effect runs: without a client the fallback is set at once, with one
\* the select is sent and load() waits for it.
LoadStart ==
    /\ loadPc = "start"
    /\ IF supabase
       THEN /\ loadPc' = "select"
            /\ UNCHANGED quotes
       ELSE /\ loadPc' = "done"
            /\ quotes' = SAMPLE_QUOTES
    /\ alert' = ""
    /\ UNCHANGED << view, supabase, db, previewList, importError, loading, loadData,
                    reads, commits, adds, lastAdded, lastImport, inserted >>

\* The select succeeds: the remote store answers with the rows it holds now.
LoadSelect ==
    /\ loadPc = "select"
    /\ loadPc' = "selected"
    /\ loadData' = SelectDesc(db, LoadLimit)
    /\ alert' = ""
    /\ UNCHANGED << view, supabase, db, quotes, previewList, importError, loading,
                    reads, commits, adds, lastAdded, lastImport, inserted >>

\* Mutant of LoadedQuotes: the fetched rows are taken as they are.
LoadedQuotesRaw(k, data) == IF k = "ok" THEN data ELSE SAMPLE_QUOTES

\* The collection load() sets once the select settled: App.js:53-64.
\* (!error && data) holds only for k = "ok"; a throw is caught at line 59.
LoadedQuotes(k, data) ==
    IF k = "ok" THEN SeqMap(FromRow, data) ELSE SAMPLE_QUOTES

\* load() resumes with the rows of a successful select.
LoadResume ==
    /\ loadPc = "selected"
    /\ loadPc' = "done"
    /\ quotes' = LoadedQuotes("ok", loadData)
    /\ loadData' = <<>>
    /\ alert' = ""
    /\ UNCHANGED << view, supabase, db, previewList, importError, loading, reads,
                    commits, adds, lastAdded, lastImport, inserted >>

\* The ways a select fails: {data: null, error}, {data: null, error: null},
\* or a rejected promise.
SelectFailures == {"error", "nodata", "throw"}

\* The select fails in way k and load() resumes.  A failed call changes
\* nothing in the remote store, so its settling and the resumption are one
\* step.
LoadFail(k) ==
    /\ loadPc = "select"
    /\ loadPc' = "done"
    /\ quotes' = LoadedQuotes(k, <<>>)
    /\ alert' = ""
    /\ UNCHANGED << view, supabase, db, previewList, importError, loading, loadData,
                    reads, commits, adds, lastAdded, lastImport, inserted >>

----------------------------------------------------------------------------
(* Admin panel: file import, App.js:115-153 and 274-282 *)

\* History: every suspended confirmImport notes that the preview list was set
\* by someone else while it waited.
MarkChanged(cs) == [i \in 1..Len(cs) |-> [cs[i] EXCEPT !.previewChanged = TRUE]]

\* History: every suspended confirmImport notes that the preview was
\* cancelled while it waited.
MarkCancelled(cs) == [i \in 1..Len(cs) |-> [cs[i] EXCEPT !.cancelled = TRUE]]

\* handleFileChange with a file chosen: the error is cleared and the read starts.
HandleFileChange(file) ==
    /\ Mounted
    /\ Len(reads) < MaxReads /\ CanStart
    /\ importError' = ""
    /\ reads' = Append(reads, file)
    /\ alert' = ""
    /\ UNCHANGED << view, supabase, db, quotes, previewList, loading, loadPc,
                    loadData, commits, adds, lastAdded, lastImport, inserted >>

\* handleFileChange with no file chosen: App.js:116-118
HandleFileChangeNoFile ==
    /\ Mounted
    /\ importError' = ""
    /\ alert' = ""
    /\ UNCHANGED << view, supabase, db, quotes, previewList, loading, loadPc,
                    loadData, reads, commits, adds, lastAdded, lastImport,
                    inserted >>

\* reader.onload of the i-th read in flight: App.js:121-150
Onload(i) ==
    /\ i \in 1..Len(reads)
    /\ LET r == ImportResult(reads[i]) IN
         /\ previewList' = r.list
         /\ importError' = IF r.error # "" THEN r.error ELSE importError
    /\ reads' = RemoveAt(reads, i)
    /\ commits' = MarkChanged(commits)
    /\ inserted' = 0
    /\ alert' = ""
    /\ UNCHANGED << view, supabase, db, quotes, loading, loadPc, loadData,
                    adds, lastAdded >>

ReaderOnload(i) == Onload(i) /\ UNCHANGED lastImport

\* The cancel-preview button: App.js:274-282
CancelPreview ==
    /\ Mounted
    /\ previewList' = <<>>
    /\ importError' = ""
    /\ commits' = MarkCancelled(MarkChanged(commits))
    /\ inserted' = 0
    /\ alert' = ""
    /\ UNCHANGED << view, supabase, db, quotes, loading, loadPc, loadData,
                    reads, adds, lastAdded, lastImport >>

----------------------------------------------------------------------------
(* confirmImport, App.js:156-194 *)

\* Mutant of ImportEnabled: the button does not look at loading.
ImportEnabledNotBusy == previewList # <<>>

\* The import button is enabled: disabled={!previewList.length || loading}
ImportEnabled == previewList # <<>> /\ ~loading

\* A confirmImport call suspended at an await.  batch is the previewList its
\* closure holds, payload what it inserts, pc the await it is at ("insert",
\* "select") or that has succeeded ("inserted", "selected"), data the rows the
\* refresh returned.  previewChanged and cancelled are history.
Commit(batch) ==
    [batch |-> batch, payload |-> SeqMap(PayloadRow, batch), pc |-> "insert",
     data |-> <<>>, previewChanged |-> FALSE, cancelled |-> FALSE]

\* Mutant of ConfirmImport: the local branch puts the batch after the collection.
ConfirmImportAppends ==
    /\ Mounted
    /\ ImportEnabled
    /\ IF Len(previewList) = 0
       THEN /\ alert' = "nothing_to_import"
            /\ UNCHANGED << quotes, previewList, loading, commits, lastAdded,
                            inserted >>
       ELSE IF supabase
       THEN /\ Len(commits) < MaxCommits /\ CanStart
            /\ loading' = TRUE
            /\ commits' = Append(commits, Commit(previewList))
            /\ alert' = ""
            /\ UNCHANGED << quotes, previewList, lastAdded, inserted >>
       ELSE /\ Len(quotes) + Len(previewList) <= MaxQuotes
            /\ quotes' = quotes \o previewList
            /\ alert' = "added_locally"
            /\ previewList' = <<>>
            /\ loading' = FALSE
            /\ lastAdded' = previewList
            /\ inserted' = 0
            /\ UNCHANGED commits
    /\ UNCHANGED << view, supabase, db, importError, loadPc, loadData, reads, adds,
                    lastImport >>

\* The button is clicked.  Without a client the whole call runs at once
\* (App.js:187-193); with one it runs up to the await of the insert.
ConfirmImport ==
    /\ Mounted
    /\ ImportEnabled
    /\ IF Len(previewList) = 0
       THEN /\ alert' = "nothing_to_import"
            /\ UNCHANGED << quotes, previewList, loading, commits, lastAdded,
                            inserted >>
       ELSE IF supabase
       THEN /\ Len(commits) < MaxCommits /\ CanStart
            /\ loading' = TRUE
            /\ commits' = Append(commits, Commit(previewList))
            /\ alert' = ""
            /\ UNCHANGED << quotes, previewList, lastAdded, inserted >>
       ELSE /\ Len(quotes) + Len(previewList) <= MaxQuotes
            /\ quotes' = previewList \o quotes
            /\ alert' = "added_locally"
            /\ previewList' = <<>>
            /\ loading' = FALSE
            /\ lastAdded' = previewList
            /\ inserted' = 0
            /\ UNCHANGED commits
    /\ UNCHANGED << view, supabase, db, importError, loadPc, loadData, reads, adds,
                    lastImport >>

\* The insert succeeds: the remote store takes the rows.
InsertSettle(i) ==
    /\ i \in 1..Len(commits)
    /\ commits[i].pc = "insert"
    /\ Len(db) + Len(commits[i].payload) <= MaxDb
    /\ db' = db \o commits[i].payload
    /\ inserted' = IF commits[i].previewChanged THEN inserted ELSE inserted + 1
    /\ commits' = [commits EXCEPT ![i].pc = "inserted"]
    /\ alert' = ""
    /\ UNCHANGED << view, supabase, quotes, previewList, importError, loading, loadPc,
                    loadData, reads, adds, lastAdded, lastImport >>

\* confirmImport resumes after a successful insert: the alert of App.js:171,
\* then the refresh is awaited.
ConfirmInserted(i) ==
    /\ i \in 1..Len(commits)
    /\ commits[i].pc = "inserted"
    /\ alert' = "imported"
    /\ commits' = [commits EXCEPT ![i].pc = "select"]
    /\ UNCHANGED << view, supabase, db, quotes, previewList, importError, loading,
                    loadPc, loadData, reads, adds, lastAdded, lastImport,
                    inserted >>

\* The ways an insert fails: {error}, or a rejected promise.
InsertFailures == {"error", "throw"}

\* Mutant of ConfirmInsertFail: a failed insert discards the preview batch.
ConfirmInsertFailDropsBatch(i, k) ==
    /\ i \in 1..Len(commits)
    /\ commits[i].pc = "insert"
    /\ alert' = IF k = "error" THEN "save_error" ELSE "connection_error"
    /\ commits' = RemoveAt(commits, i)
    /\ previewList' = <<>>
    /\ loading' = FALSE
    /\ UNCHANGED << view, supabase, db, quotes, importError, loadPc, loadData, reads,
                    adds, lastAdded, lastImport, inserted >>

\* The insert fails in way k and confirmImport resumes: App.js:167-169 for a
\* returned error, 183-186 for a throw, then line 193.
ConfirmInsertFail(i, k) ==
    /\ i \in 1..Len(commits)
    /\ commits[i].pc = "insert"
    /\ alert' = IF k = "error" THEN "save_error" ELSE "connection_error"
    /\ commits' = RemoveAt(commits, i)
    /\ loading' = FALSE
    /\ UNCHANGED << view, supabase, db, quotes, previewList, importError, loadPc,
                    loadData, reads, adds, lastAdded, lastImport, inserted >>

\* The refresh select succeeds.
RefreshSettle(i) ==
    /\ i \in 1..Len(commits)
    /\ commits[i].pc = "select"
    /\ commits' = [commits EXCEPT ![i].pc = "selected",
                                  ![i].data = SelectDesc(db, RefreshLimit)]
    /\ alert' = ""
    /\ UNCHANGED << view, supabase, db, quotes, previewList, importError, loading,
                    loadPc, loadData, reads, adds, lastAdded, lastImport,
                    inserted >>

\* confirmImport resumes with the refreshed rows: App.js:178-181, 193.
ConfirmRefreshed(i) ==
    /\ i \in 1..Len(commits)
    /\ commits[i].pc = "selected"
    /\ quotes' = SeqMap(FromRow, commits[i].data)
    /\ previewList' = <<>>
    /\ lastAdded' = commits[i].payload
    /\ inserted' = 0
    /\ alert' = ""
    /\ commits' = RemoveAt(commits, i)
    /\ loading' = FALSE
    /\ UNCHANGED << view, supabase, db, importError, loadPc, loadData, reads, adds,
                    lastImport >>

\* Mutant of ConfirmRefreshFail: the catch leaves loading set.
ConfirmRefreshFailStuck(i, k) ==
    /\ i \in 1..Len(commits)
    /\ commits[i].pc = "select"
    /\ alert' = "connection_error"
    /\ commits' = RemoveAt(commits, i)
    /\ UNCHANGED << view, supabase, db, quotes, previewList, importError,
                    loading, loadPc, loadData, reads, adds, lastAdded,
                    lastImport, inserted >>

\* The refresh fails in way k and confirmImport resumes.  data is null when
\* the select returns an error or nothing, and data.map (App.js:179) then
\* throws into the catch of line 183, where a rejected select lands too.
ConfirmRefreshFail(i, k) ==
    /\ i \in 1..Len(commits)
    /\ commits[i].pc = "select"
    /\ alert' = "connection_error"
    /\ commits' = RemoveAt(commits, i)
    /\ loading' = FALSE
    /\ UNCHANGED << view, supabase, db, quotes, previewList, importError, loadPc,
                    loadData, reads, adds, lastAdded, lastImport, inserted >>

----------------------------------------------------------------------------
(* Manual add: ManualAdd's onSubmit (App.js:406-411) and addManual
   (App.js:197-215) *)

\* What the user may type in the form's two fields.
ManualTexts == { <<" ">>, <<"m", " ">> }
ManualAuthors == { <<>> }

\* An addManual insert in flight: q is the quote its closure holds, pc is
\* "insert" until the remote store has taken it, then "inserted".
Add(q) == [q |-> q, pc |-> "insert"]

\* const q = {text: text.trim(), author: (author || "مجهول").trim()}
ManualQuote(text, author) == Quote(Trim(text), Trim(OrStr(author, UnknownAuthor)))

\* The form is submitted with text and author typed: onAdd(text, author ||
\* "مجهول"), then addManual up to the insert being sent (or, without a client,
\* to its end).
AddManual(text, author) ==
    /\ Mounted
    /\ LET q == ManualQuote(text, OrStr(author, UnknownAuthor)) IN
       IF Trim(text) = <<>>
       THEN UNCHANGED << quotes, adds, lastAdded >>
       ELSE IF supabase
       THEN /\ Len(adds) < MaxAdds /\ CanStart
            /\ adds' = Append(adds, Add(q))
            /\ UNCHANGED << quotes, lastAdded >>
       ELSE /\ Len(quotes) < MaxQuotes
            /\ quotes' = <<q>> \o quotes
            /\ lastAdded' = <<q>>
            /\ UNCHANGED adds
    /\ alert' = ""
    /\ UNCHANGED << view, supabase, db, previewList, importError, loading, loadPc,
                    loadData, reads, commits, lastImport, inserted >>

\* The insert of one quote succeeds.
AddSettle(i) ==
    /\ i \in 1..Len(adds)
    /\ adds[i].pc = "insert"
    /\ Len(db) < MaxDb
    /\ db' = Append(db, adds[i].q)
    /\ adds' = [adds EXCEPT ![i].pc = "inserted"]
    /\ alert' = ""
    /\ UNCHANGED << view, supabase, quotes, previewList, importError, loading, loadPc,
                    loadData, reads, commits, lastAdded, lastImport, inserted >>

\* The .then callback runs with res.error unset: App.js:208-210
AddManualThen(i) ==
    /\ i \in 1..Len(adds)
    /\ adds[i].pc = "inserted"
    /\ Len(quotes) < MaxQuotes
    /\ quotes' = <<adds[i].q>> \o quotes
    /\ lastAdded' = <<adds[i].q>>
    /\ alert' = ""
    /\ adds' = RemoveAt(adds, i)
    /\ UNCHANGED << view, supabase, db, previewList, importError, loading, loadPc,
                    loadData, reads, commits, lastImport, inserted >>

\* The insert fails in way k.  With a returned error the .then callback
\* alerts (App.js:205-207); a rejected promise has no handler, so nothing runs.
AddManualFail(i, k) ==
    /\ i \in 1..Len(adds)
    /\ adds[i].pc = "insert"
    /\ alert' = IF k = "error" THEN "add_error" ELSE ""
    /\ adds' = RemoveAt(adds, i)
    /\ UNCHANGED << view, supabase, db, quotes, previewList, importError, loading,
                    loadPc, loadData, reads, commits, lastAdded, lastImport,
                    inserted >>

----------------------------------------------------------------------------
(* The files the user may choose in the application's specification *)

FileAB ==
    File(<<"q", ".JSON">>, "array",
         << JObj(JStr(<<" ", "a", " ">>), JAbsent),
            JObj(JStr(<<"b">>), JStr(<<" ">>)) >>, <<>>)
FileInvalid == File(<<"q", ".json">>, "invalid", <<>>, <<>>)
FileNoText ==
    File(<<"q", ".json">>, "array", << JObj(JStr(<<" ">>), JStr(<<"x">>)) >>, <<>>)
FileCsv ==
    File(<<"q", ".csv">>, "csv", <<>>,
         << << <<"c">>, <<"x">> >>, << <<>>, <<"skip">> >> >>)
FileTxt == File(<<"q", ".txt">>, "csv", <<>>, << << <<"c">>, <<"x">> >> >>)

Files == { FileAB, FileCsv, FileInvalid }

Next ==
    \/ LoadStart
    \/ LoadSelect
    \/ LoadResume
    \/ \E k \in SelectFailures : LoadFail(k)
    \/ \E file \in Files : HandleFileChange(file)
    \/ HandleFileChangeNoFile
    \/ \E i \in 1..MaxReads : ReaderOnload(i)
    \/ CancelPreview
    \/ ConfirmImport
    \/ \E i \in 1..MaxCommits : InsertSettle(i)
    \/ \E i \in 1..MaxCommits : ConfirmInserted(i)
    \/ \E i \in 1..MaxCommits, k \in InsertFailures : ConfirmInsertFail(i, k)
    \/ \E i \in 1..MaxCommits : RefreshSettle(i)
    \/ \E i \in 1..MaxCommits : ConfirmRefreshed(i)
    \/ \E i \in 1..MaxCommits, k \in SelectFailures : ConfirmRefreshFail(i, k)
    \/ \E text \in ManualTexts, author \in ManualAuthors : AddManual(text, author)
    \/ \E i \in 1..MaxAdds : AddSettle(i)
    \/ \E i \in 1..MaxAdds : AddManualThen(i)
    \/ \E i \in 1..MaxAdds, k \in InsertFailures : AddManualFail(i, k)

Spec == Init /\ [][Next]_vars

\* The next step of the i-th suspended confirmImport: the remote store
\* answers the call it waits for, or it resumes after the answer.
CommitStep(i) ==
    \/ InsertSettle(i)
    \/ \E k \in InsertFailures : ConfirmInsertFail(i, k)
    \/ ConfirmInserted(i)
    \/ RefreshSettle(i)
    \/ ConfirmRefreshed(i)
    \/ \E k \in SelectFailures : ConfirmRefreshFail(i, k)

\* The preview/commit workflow once the initial load has ended, with or
\* without a client.  The load and the manual add are left out: they touch
\* neither the preview list, nor loading, nor a suspended confirmImport.
CommitInit ==
    /\ supabase \in BOOLEAN
    /\ db \in InitialTables
    /\ quotes = IF supabase THEN LoadedQuotes("ok", SelectDesc(db, LoadLimit))
                ELSE SAMPLE_QUOTES
    /\ previewList = <<>>
    /\ importError = ""
    /\ loading = FALSE
    /\ alert = ""
    /\ loadPc = "done"
    /\ loadData = <<>>
    /\ reads = <<>>
    /\ commits = <<>>
    /\ adds = <<>>
    /\ lastAdded = <<>>
    /\ lastImport = NoImport
    /\ inserted = 0
    /\ query = <<>>
    /\ selected = <<>>
    /\ downloads = <<>>

CommitNext ==
    \/ \E file \in Files : HandleFileChange(file)
    \/ HandleFileChangeNoFile
    \/ \E i \in 1..MaxReads : ReaderOnload(i)
    \/ CancelPreview
    \/ ConfirmImport
    \/ \E i \in 1..MaxCommits : InsertSettle(i)
    \/ \E i \in 1..MaxCommits : ConfirmInserted(i)
    \/ \E i \in 1..MaxCommits, k \in InsertFailures : ConfirmInsertFail(i, k)
    \/ \E i \in 1..MaxCommits : RefreshSettle(i)
    \/ \E i \in 1..MaxCommits : ConfirmRefreshed(i)
    \/ \E i \in 1..MaxCommits, k \in SelectFailures : ConfirmRefreshFail(i, k)

\* Every call to the remote store is answered or fails, and the event loop
\* runs the continuation of every settled promise: no suspended
\* confirmImport waits for ever.
FairSpec ==
    /\ CommitInit
    /\ [][CommitNext]_vars
    /\ \A i \in 1..MaxCommits : WF_vars(CommitStep(i))

----------------------------------------------------------------------------
(* The import parser on its own: a file is being read, over whatever preview
   list an earlier import left, and its onload runs. *)

SeqUpTo(S, n) == UNION { [1..m -> S] : m \in 0..n }

JsonTexts == { JAbsent, JStr(<<>>), JStr(<<" ">>), JStr(<<" ", "a", " ">>) }
JsonAuthors == { JAbsent, JStr(<<>>), JStr(<<" ">>), JStr(<<" ", "x">>) }
JsonElems ==
    { JObj(t, a) : t \in JsonTexts, a \in JsonAuthors }
    \cup { JObj(JNum(<<"0">>), JAbsent), JObj(JNum(<<"7">>), JNull),
           JNullElem, JPrimElem }

CsvFields == { <<>>, <<" ">>, <<" ", "c">> }
CsvRows == SeqUpTo(CsvFields, MaxCols)

JsonArrayFiles ==
    { File(<<"q", ".json">>, "array", items, <<>>) : items \in SeqUpTo(JsonElems, MaxItems) }

CsvFiles ==
    { File(<<"q", ".csv">>, "csv", <<>>, rows) : rows \in SeqUpTo(CsvRows, MaxRows) }

OtherFiles ==
    { File(<<"q", ".json">>, "invalid", <<>>, <<>>),
      File(<<"q", ".json">>, "scalar", <<>>, <<>>),
      File(<<"Q", ".JSON">>, "array", << JObj(JStr(<<" ", "a", " ">>), JAbsent) >>, <<>>),
      File(<<"Q", ".CSV">>, "csv", <<>>, << << <<" ", "c">> >> >>),
      File(<<"q", ".json", ".txt">>, "array", << JObj(JStr(<<" ", "a", " ">>), JAbsent) >>, <<>>),
      File(<<"q">>, "csv", <<>>, << << <<" ", "c">> >> >>),
      FileTxt }

\* Preview lists an earlier import may have left.
PriorPreviews == { <<>>, <<Quote(<<"p">>, UnknownAuthor)>> }

ParseInit ==
    /\ supabase = FALSE
    /\ db = <<>>
    /\ quotes = SAMPLE_QUOTES
    /\ previewList \in PriorPreviews
    /\ importError = ""
    /\ loading = FALSE
    /\ alert = ""
    /\ loadPc = "done"
    /\ loadData = <<>>
    /\ \/ \E file \in JsonArrayFiles : reads = <<file>>
       \/ \E file \in CsvFiles : reads = <<file>>
       \/ \E file \in OtherFiles : reads = <<file>>
    /\ commits = <<>>
    /\ adds = <<>>
    /\ lastAdded = <<>>
    /\ lastImport = NoImport
    /\ inserted = 0
    /\ query = <<>>
    /\ selected = <<>>
    /\ downloads = <<>>

ParseOnload ==
    /\ Onload(1)
    /\ lastImport' = [done |-> TRUE, file |-> reads[1], before |-> previewList,
                      quotes |-> quotes]

ParseNext == ParseOnload

ParseSpec == ParseInit /\ [][ParseNext]_vars

----------------------------------------------------------------------------
(* The card grid: the search box, App.js:69-72 and 311-316 *)

MaxView == 2       \* records of the collection behind the card grid
MaxQuery == 2      \* characters typed into the search box

\* String.prototype.includes
Includes(t, s) ==
    \E i \in 0..(Len(t) - Len(s)) : SubSeq(t, i + 1, i + Len(s)) = s

\* Mutant of Matches: the query is used as typed.
MatchesUntrimmed(q, v) ==
    Includes(q.text \o <<" ">> \o OrStr(q.author, <<>>), v)

\* (q) => (q.text + " " + (q.author || "")).includes(query.trim())
Matches(q, v) ==
    Includes(q.text \o <<" ">> \o OrStr(q.author, <<>>), Trim(v))

\* Array.prototype.filter with the callback above
RECURSIVE Filter(_, _)
Filter(qs, v) ==
    IF qs = <<>> THEN <<>>
    ELSE (IF Matches(Head(qs), v) THEN <<Head(qs)>> ELSE <<>>) \o Filter(Tail(qs), v)

\* const filtered = quotes.filter(...), computed at every render
filtered == Filter(quotes, query)

\* onChange={(e) => setQuery(e.target.value)}
SetQuery(v) ==
    /\ Mounted
    /\ query' = v
    /\ alert' = ""
    /\ UNCHANGED << supabase, db, quotes, previewList, importError, loading,
                    loadPc, loadData, reads, commits, adds, lastAdded,
                    lastImport, inserted, selected, downloads >>

\* Records a collection may hold: an author may be empty after a local import.
ViewQuotes ==
    { Quote(<<"a">>, <<"b">>), Quote(<<"a", "b">>, <<>>),
      Quote(<<"b">>, UnknownAuthor) }

ViewCollections == SeqUpTo(ViewQuotes, MaxView)

Queries == SeqUpTo({"a", "b", " "}, MaxQuery)

\* The application in local mode, loaded, showing one of the collections.
ViewInit ==
    /\ supabase = FALSE
    /\ db = <<>>
    /\ quotes \in ViewCollections
    /\ previewList = <<>>
    /\ importError = ""
    /\ loading = FALSE
    /\ alert = ""
    /\ loadPc = "done"
    /\ loadData = <<>>
    /\ reads = <<>>
    /\ commits = <<>>
    /\ adds = <<>>
    /\ lastAdded = <<>>
    /\ lastImport = NoImport
    /\ inserted = 0
    /\ query = <<>>
    /\ selected = <<>>
    /\ downloads = <<>>

FilterNext == \E v \in Queries : SetQuery(v)

FilterSpec == ViewInit /\ [][FilterNext]_vars

----------------------------------------------------------------------------
(* The poster download: handleDownload, App.js:74-89, and the hidden poster,
   App.js:359-395 *)

MaxDownloads == 2  \* handleDownload calls in flight

\* The placeholders "نص الاقتباس" and "— المؤلف" of the poster.
PlaceholderText == <<"quote text">>
PlaceholderAuthor == <<"dash", "author">>

\* What the poster shows for the selection sel: App.js:388-391.  "dash"
\* stands for the "— " in front of the author.
Poster(sel) ==
    IF sel = <<>>
    THEN [text |-> PlaceholderText, author |-> PlaceholderAuthor]
    ELSE [text |-> OrStr(sel[1].text, PlaceholderText),
          author |-> <<"dash">> \o sel[1].author]

\* No canvas yet.
NoImage == [text |-> <<>>, author |-> <<>>]

\* A handleDownload call suspended at an await: quote is its argument, pc the
\* await it is at ("delay", then "render" once html2canvas is called, then
\* "canvas" once the node has been rasterized), image what the canvas shows.
Download(q) == [quote |-> q, pc |-> "delay", image |-> NoImage]

\* The download button of the j-th card: setSelected(quote), then the delay.
HandleDownload(j) ==
    /\ Mounted
    /\ j \in 1..Len(filtered)
    /\ Len(downloads) < MaxDownloads
    /\ selected' = <<filtered[j]>>
    /\ downloads' = Append(downloads, Download(filtered[j]))
    /\ alert' = ""
    /\ UNCHANGED << supabase, db, quotes, previewList, importError, loading,
                    loadPc, loadData, reads, commits, adds, lastAdded,
                    lastImport, inserted, query >>

\* The 60 ms timer fires.  posterRef.current is set from the first commit on
\* (the poster is always rendered), so html2canvas is called.
DelayDone(i) ==
    /\ i \in 1..Len(downloads)
    /\ downloads[i].pc = "delay"
    /\ downloads' = [downloads EXCEPT ![i].pc = "render"]
    /\ alert' = ""
    /\ UNCHANGED << supabase, db, quotes, previewList, importError, loading,
                    loadPc, loadData, reads, commits, adds, lastAdded,
                    lastImport, inserted, query, selected >>

\* html2canvas reads the poster node as the document shows it then.
Rasterize(i) ==
    /\ i \in 1..Len(downloads)
    /\ downloads[i].pc = "render"
    /\ downloads' = [downloads EXCEPT ![i].pc = "canvas",
                                      ![i].image = Poster(selected)]
    /\ alert' = ""
    /\ UNCHANGED << supabase, db, quotes, previewList, importError, loading,
                    loadPc, loadData, reads, commits, adds, lastAdded,
                    lastImport, inserted, query, selected >>

\* handleDownload resumes with the canvas and saves it: App.js:84-88
SaveImage(i) ==
    /\ i \in 1..Len(downloads)
    /\ downloads[i].pc = "canvas"
    /\ downloads' = RemoveAt(downloads, i)
    /\ alert' = ""
    /\ UNCHANGED << supabase, db, quotes, previewList, importError, loading,
                    loadPc, loadData, reads, commits, adds, lastAdded,
                    lastImport, inserted, query, selected >>

\* The card grid with every card shown (the query is empty).
PosterNext ==
    \/ \E j \in 1..MaxView : HandleDownload(j)
    \/ \E i \in 1..MaxDownloads : DelayDone(i)
    \/ \E i \in 1..MaxDownloads : Rasterize(i)
    \/ \E i \in 1..MaxDownloads : SaveImage(i)

PosterSpec == ViewInit /\ [][PosterNext]_vars

----------------------------------------------------------------------------
(* Properties of the commit, the manual add and the load *)

FailureAlerts == {"save_error", "connection_error"}

\* This step ends the i-th suspended confirmImport on a failure: its insert
\* returned an error or threw, or its refresh did not return rows.
CommitFailsAt(i) ==
    /\ i \in 1..Len(commits)
    /\ commits[i].pc \in {"insert", "select"}
    /\ commits' = RemoveAt(commits, i)

\* This step ends the i-th suspended confirmImport with the refreshed rows.
CommitSucceedsAt(i) ==
    /\ i \in 1..Len(commits)
    /\ commits[i].pc = "selected"
    /\ commits' = RemoveAt(commits, i)

\* C1: a commit that fails (the insert returns an error or throws, or the
\* refresh fails) ends with an alert, loading reset, and neither the preview
\* batch nor the quote collection changed; unless the preview was replaced or
\* cancelled meanwhile, the preview batch is the non-empty batch the commit
\* started from.
C1_FailedCommitKeepsBatch ==
    [][ \A i \in 1..MaxCommits :
          CommitFailsAt(i) =>
            /\ previewList' = previewList
            /\ quotes' = quotes
            /\ loading' = FALSE
            /\ alert' \in FailureAlerts
            /\ ~commits[i].previewChanged =>
                 previewList' = commits[i].batch /\ previewList' # <<>> ]_vars

\* A commit has just failed after its insert was taken, and the batch is
\* still previewed.
C1_Witness ==
    /\ alert = "connection_error"
    /\ previewList = <<Quote(<<"c">>, <<"x">>)>>
    /\ Quote(<<"c">>, <<"x">>) \in Range(db)
    /\ commits = <<>>
    /\ ~loading

\* C2: a commit that succeeds, locally or remotely, ends with the preview
\* batch empty, loading false, and every committed record in the collection
\* exactly once: locally each is there once more than before; remotely each is
\* among the refreshed rows and the batch, if it is the one still previewed,
\* was taken by the remote table once.
C2_CommitStoresOnce ==
    [][ /\ alert' = "added_locally" =>
             /\ previewList' = <<>>
             /\ loading' = FALSE
             /\ \A r \in Range(previewList) :
                  Count(r, quotes') = Count(r, quotes) + Count(r, previewList)
        /\ \A i \in 1..MaxCommits :
             CommitSucceedsAt(i) =>
               /\ previewList' = <<>>
               /\ loading' = FALSE
               /\ \A r \in Range(commits[i].payload) : Count(r, quotes') >= 1
               /\ ~commits[i].previewChanged => inserted = 1
      ]_vars

\* This step ends the i-th manual insert in flight: its .then callback has
\* run after a success (pc = "inserted"), or the insert has failed.
AddSettlesAt(i) ==
    /\ i \in 1..Len(adds)
    /\ adds' = RemoveAt(adds, i)

\* C3: in remote mode a manual add whose insert fails leaves the collection
\* unchanged and raises an alert, and the collection grows by the quote only
\* in the step that handles a successful insert.
C3_FailedAddSurfaced ==
    [][ \A i \in 1..MaxAdds :
          AddSettlesAt(i) =>
            IF adds[i].pc = "inserted"
            THEN quotes' = <<adds[i].q>> \o quotes
            ELSE quotes' = quotes /\ alert' = "add_error" ]_vars

\* C6: the records of the most recently completed successful add are the
\* first records of the collection (in either order).
C6_LastAddedFirst ==
    LET n == Len(lastAdded) IN
    /\ Len(quotes) >= n
    /\ \A r \in Range(lastAdded) :
         Count(r, SubSeq(quotes, 1, n)) = Count(r, lastAdded)

\* C7: the load ends with the sample set when there is no client or the
\* select returned an error, returned no data or threw, and otherwise (the
\* select returned rows, loadPc = "selected") with the
\* fetched rows in the order returned, an empty author replaced by the
\* unknown label; it raises no alert.
C7_LoadDefined ==
    [][ (loadPc # "done" /\ loadPc' = "done") =>
          /\ alert' = ""
          /\ IF loadPc = "selected"
             THEN /\ Len(quotes') = Len(loadData)
                  /\ \A j \in 1..Len(loadData) :
                       /\ quotes'[j].text = loadData[j].text
                       /\ quotes'[j].author =
                            IF loadData[j].author = <<>> THEN UnknownAuthor
                            ELSE loadData[j].author
             ELSE quotes' = SAMPLE_QUOTES ]_vars

\* The load fetched a row whose author is empty and the collection shows it
\* under the unknown label.
C7_Witness ==
    /\ supabase
    /\ loadPc = "done"
    /\ db = <<Quote(<<"d">>, <<>>)>>
    /\ quotes = <<Quote(<<"d">>, UnknownAuthor)>>

\* C8 as amended: at most one commit is in flight, and loading is set while
\* it is.
C8_AtMostOneCommit == Len(commits) <= 1 /\ (commits # <<>> => loading)

\* C8 as stated: while a commit is in flight the user can start another one,
\* that is, the import control is enabled whenever a batch is previewed.
C8_SecondCommitCanStart ==
    (commits # <<>> /\ previewList # <<>>) => ImportEnabled

\* A commit is in flight while a batch is previewed.
C8_Witness == commits # <<>> /\ previewList # <<>> /\ loading

----------------------------------------------------------------------------
(* Properties of the import parser, over ParseSpec: lastImport.file is the
   file just read, lastImport.before the preview list it found. *)

IsJson(file) == EndsWith(ToLowerCase(file.name), ".json")
IsCsv(file) == EndsWith(ToLowerCase(file.name), ".csv")

\* A malformed import file: JSON that does not parse or is not an array, or
\* a file of an unsupported extension.
Malformed(file) ==
    \/ IsJson(file) /\ file.content.k # "array"
    \/ ~IsJson(file) /\ ~IsCsv(file)

\* C4 as stated: a malformed file is rejected with an error and the preview
\* batch and the collection are what they were.
C4_RejectedFileChangesNothing ==
    (lastImport.done /\ Malformed(lastImport.file)) =>
        /\ importError # ""
        /\ previewList = lastImport.before
        /\ quotes = lastImport.quotes

\* C4 as amended: a malformed file is rejected with an error, the collection
\* is what it was, and the preview batch is empty whatever it held before.
C4_RejectedFileClearsPreview ==
    (lastImport.done /\ Malformed(lastImport.file)) =>
        /\ importError = IF IsJson(lastImport.file) THEN "invalid_json"
                         ELSE "unsupported_type"
        /\ previewList = <<>>
        /\ quotes = lastImport.quotes
        /\ alert = ""

\* A malformed file was read over a batch already previewed.
C4_Witness ==
    /\ lastImport.done
    /\ Malformed(lastImport.file)
    /\ lastImport.before # <<>>
    /\ importError # ""

\* The text an element or a row contributes: the trimmed text field (first
\* column), empty when there is none.
ElemText(e) == IF Falsy(e.text) THEN <<>> ELSE Trim(e.text.s)
RowText(row) == IF Len(row) >= 1 THEN Trim(row[1]) ELSE <<>>

\* A well-formed file none of whose entries has a text.
ZeroRecords(file) ==
    \/ /\ IsJson(file)
       /\ file.content.k = "array"
       /\ \A j \in 1..Len(file.content.items) :
            file.content.items[j].k # "null" /\ ElemText(file.content.items[j]) = <<>>
    \/ /\ ~IsJson(file) /\ IsCsv(file)
       /\ \A j \in 1..Len(file.content.rows) : RowText(file.content.rows[j]) = <<>>

\* C5 as stated: importing a file that yields no record leaves the preview
\* batch as it was and raises the "nothing to import" signal.
C5_EmptyImportIsNoOp ==
    (lastImport.done /\ ZeroRecords(lastImport.file)) =>
        /\ previewList = lastImport.before
        /\ alert = "nothing_to_import"

\* C5 as amended: importing a file that yields no record leaves the preview
\* batch empty, whatever it held before, and raises neither an alert nor an
\* import error; the collection is what it was.
C5_EmptyImportClearsPreview ==
    (lastImport.done /\ ZeroRecords(lastImport.file)) =>
        /\ previewList = <<>>
        /\ alert = ""
        /\ importError = ""
        /\ quotes = lastImport.quotes

\* A file with entries but no record was read over a batch already previewed.
C5_Witness ==
    /\ lastImport.done
    /\ ZeroRecords(lastImport.file)
    /\ lastImport.file.content.items # <<>>
    /\ lastImport.before # <<>>
    /\ previewList = <<>>

\* A JSON file that is an array of objects whose text and author, where
\* present, are strings.
JsonObjects(file) ==
    /\ IsJson(file)
    /\ file.content.k = "array"
    /\ \A j \in 1..Len(file.content.items) :
         /\ file.content.items[j].k = "obj"
         /\ file.content.items[j].text.k \in {"str", "absent"}
         /\ file.content.items[j].author.k \in {"str", "absent"}

\* The author an element is to get: the unknown label when it has none or an
\* empty one, else its author trimmed.
ElemAuthor(e) ==
    IF e.author.k = "absent" \/ e.author.s = <<>> THEN UnknownAuthor
    ELSE Trim(e.author.s)

\* How many of the first j elements have a text.
JsonRank(items, j) == Cardinality({i \in 1..j : ElemText(items[i]) # <<>>})

\* C9: for a JSON array of objects the candidates are exactly the elements
\* whose trimmed text is not empty, in the array's order, with the text
\* trimmed and the author trimmed, or the unknown label when absent or empty.
C9_JsonCandidates ==
    (lastImport.done /\ JsonObjects(lastImport.file)) =>
        LET items == lastImport.file.content.items IN
        /\ importError = ""
        /\ Len(previewList) = JsonRank(items, Len(items))
        /\ \A j \in 1..Len(items) :
             ElemText(items[j]) # <<>> =>
               previewList[JsonRank(items, j)]
                 = Quote(ElemText(items[j]), ElemAuthor(items[j]))

\* The claim's example, [{text: " a "}, {text: "", author: " x"},
\* {author: " x"}], was read and left one candidate under the unknown label.
C9_Witness ==
    /\ lastImport.done
    /\ lastImport.file.content.items =
         << JObj(JStr(<<" ", "a", " ">>), JAbsent),
            JObj(JStr(<<>>), JStr(<<" ", "x">>)),
            JObj(JAbsent, JStr(<<" ", "x">>)) >>
    /\ previewList = <<Quote(<<"a">>, UnknownAuthor)>>

\* The author a CSV row is to get: the unknown label when the second column
\* is missing or empty, else the second column trimmed.
RowAuthor(row) ==
    IF Len(row) < 2 \/ row[2] = <<>> THEN UnknownAuthor ELSE Trim(row[2])

\* How many of the first j rows have a text.
CsvRank(rows, j) == Cardinality({i \in 1..j : RowText(rows[i]) # <<>>})

\* C10: for a CSV file the candidates are the rows whose first column is not
\* empty after trimming, in input order, the author being the unknown label
\* when the second column is empty or missing; no error is raised and there
\* are at most as many candidates as rows.
C10_CsvCandidates ==
    (lastImport.done /\ IsCsv(lastImport.file) /\ ~IsJson(lastImport.file)) =>
        LET rows == lastImport.file.content.rows IN
        /\ importError = ""
        /\ Len(previewList) <= Len(rows)
        /\ Len(previewList) = CsvRank(rows, Len(rows))
        /\ \A j \in 1..Len(rows) :
             RowText(rows[j]) # <<>> =>
               previewList[CsvRank(rows, j)]
                 = Quote(RowText(rows[j]), RowAuthor(rows[j]))

\* A CSV of a row without text and a row with text and an empty author was
\* read and left the second row only, under the unknown label.
C10_Witness ==
    /\ lastImport.done
    /\ lastImport.file.content.rows =
         << << <<>>, <<" ", "c">> >>, << <<" ", "c">>, <<>> >> >>
    /\ previewList = <<Quote(<<"c">>, UnknownAuthor)>>

----------------------------------------------------------------------------
(* Properties of the search, over FilterSpec *)

RECURSIVE IsSubseq(_, _)
IsSubseq(a, b) ==
    IF a = <<>> THEN TRUE
    ELSE IF b = <<>> THEN FALSE
    ELSE IF Head(a) = Head(b) THEN IsSubseq(Tail(a), Tail(b))
    ELSE IsSubseq(a, Tail(b))

\* s occurs in t as a contiguous run of characters.
Occurs(s, t) == \E i, j \in 0..Len(t) : i <= j /\ SubSeq(t, i + 1, j) = s

\* The text of a card as the search sees it: text, a space, author.
CardText(q) == q.text \o <<" ">> \o q.author

\* The filtered view holds exactly the records of the collection in which v
\* occurs, each as often as the collection does.
KeepsExactly(v) ==
    /\ Len(filtered) = Cardinality({i \in 1..Len(quotes) : Occurs(v, CardText(quotes[i]))})
    /\ \A r \in Range(quotes) :
         Count(r, filtered) = IF Occurs(v, CardText(r)) THEN Count(r, quotes) ELSE 0

\* C11 as amended: the filtered view is a subsequence of the collection in
\* the collection's order, filtering it again with the same query changes
\* nothing, the empty query shows the whole collection, and a quote is shown
\* exactly when the query with its leading and trailing whitespace removed
\* occurs in its text, a space and its author put together.
C11_FilterContract ==
    /\ IsSubseq(filtered, quotes)
    /\ Filter(filtered, query) = filtered
    /\ (query = <<>> => filtered = quotes)
    /\ KeepsExactly(Trim(query))

\* C11 as stated: the same, the query taken as typed (no normalisation).
C11_FilterAsTyped ==
    /\ IsSubseq(filtered, quotes)
    /\ Filter(filtered, query) = filtered
    /\ (query = <<>> => filtered = quotes)
    /\ KeepsExactly(query)

\* The query "a " shows the card "ab", in which "a " does not occur, and hides
\* another.
C11_Witness ==
    /\ query = <<"a", " ">>
    /\ quotes = << Quote(<<"a", "b">>, <<>>), Quote(<<"b">>, UnknownAuthor) >>
    /\ filtered = << Quote(<<"a", "b">>, <<>>) >>

----------------------------------------------------------------------------
(* Properties of the records, over Spec *)

\* q has a trimmed, non-empty text and a non-empty author.
WellFormed(q) == q.text # <<>> /\ Trim(q.text) = q.text /\ q.author # <<>>

\* C12: every record of the preview batch, and every record an import or a
\* manual entry added to the collection, has a non-empty trimmed text and a
\* non-empty author (the unknown label when none was given).
C12_QuotesWellFormed ==
    \A q \in Range(previewList) \cup Range(lastAdded) : WellFormed(q)

----------------------------------------------------------------------------
(* Progress of the commit, over FairSpec *)

\* This step ends the i-th suspended confirmImport.
CommitEndsAt(i) ==
    /\ i \in 1..Len(commits)
    /\ commits' = RemoveAt(commits, i)

\* C13: every commit in flight ends, with loading reset; it ends with the
\* preview batch empty on success, and on failure with the preview batch as
\* it was, which is the non-empty batch committed unless an import or a
\* cancel replaced it meanwhile.  A local commit is over within its step.
C13_CommitIsTransient ==
    /\ (commits # <<>>) ~> (commits = <<>> /\ ~loading)
    /\ [][ /\ \A i \in 1..MaxCommits :
                CommitEndsAt(i) =>
                  /\ loading' = FALSE
                  /\ commits' = <<>>
                  /\ IF commits[i].pc = "selected"
                     THEN previewList' = <<>>
                     ELSE /\ previewList' = previewList
                          /\ ~commits[i].previewChanged => previewList' # <<>>
           /\ alert' = "added_locally" =>
                loading' = FALSE /\ commits' = <<>> /\ previewList' = <<>>
         ]_vars

\* A commit has just ended on an insert the remote store refused: nothing is
\* in flight, loading is reset and the batch is still previewed.
C13_Witness ==
    /\ alert = "save_error"
    /\ commits = <<>>
    /\ ~loading
    /\ previewList # <<>>
    /\ inserted = 0

----------------------------------------------------------------------------
(* Properties of the commit under interleaving, over Spec *)

\* C14: without a client, the step of confirmImport leaves the collection
\* equal to the preview batch, in its order, followed by the collection as it
\* was.
C14_LocalCommitPrepends ==
    [][ alert' = "added_locally" =>
          /\ ~supabase
          /\ previewList # <<>>
          /\ quotes' = previewList \o quotes ]_vars

\* The two records of q.JSON have just been committed locally over the
\* sample set.
C14_Witness ==
    /\ ~supabase
    /\ alert = "added_locally"
    /\ quotes = << Quote(<<"a">>, UnknownAuthor), Quote(<<"b">>, <<>>) >>
                  \o SAMPLE_QUOTES

\* C15: a preview batch is taken by the remote table at most once, whatever
\* commits and retries take place.
C15_BatchInsertedOnce == inserted <= 1

\* C16: a commit that ends does not touch a preview batch that was set while
\* it was in flight: a batch imported meanwhile is still previewed after it.
C16_LaterBatchSurvivesCommit ==
    [][ \A i \in 1..MaxCommits :
          (CommitEndsAt(i) /\ commits[i].previewChanged) =>
            previewList' = previewList ]_vars

\* C17: once the preview has been cancelled, a confirmImport still in flight
\* neither has its insert taken by the remote table nor adds a record of its
\* batch to the collection.
C17_CancelledNeverCommitted ==
    [][ \A i \in 1..MaxCommits :
          (i \in 1..Len(commits) /\ commits[i].cancelled) =>
            /\ (commits[i].pc = "insert" /\ Len(commits') = Len(commits)) =>
                 commits'[i].pc = "insert"
            /\ CommitEndsAt(i) =>
                 \A r \in Range(commits[i].payload) :
                   Count(r, quotes') <= Count(r, quotes) ]_vars

----------------------------------------------------------------------------
(* Properties of overlapping file reads, over Spec *)

\* C18: whatever the order in which overlapping reads complete, an import
\* error is shown only over an empty preview batch.
C18_ErrorMeansEmptyPreview == importError # "" => previewList = <<>>

----------------------------------------------------------------------------
(* Properties of the poster download, over PosterSpec *)

\* C19: the canvas of every download shows the quote the download was asked
\* for, and at most one quote is selected.
C19_CanvasShowsRequestedQuote ==
    /\ Len(selected) <= 1
    /\ \A i \in 1..Len(downloads) :
         downloads[i].pc = "canvas" =>
           downloads[i].image = Poster(<<downloads[i].quote>>)

====
